---- MODULE Spec2Model ----
(***************************************************************************)
(* ALICE Font CDN core engine (services/core-engine/src/main.rs).           *)
(*                                                                         *)
(* Text is modelled as a sequence of one-character strings, so that trim,  *)
(* to_lowercase, replace and contains are computed character by character. *)
(* The `characters` field of a subset request is a sequence of runs        *)
(* [ch, n] (character ch repeated n times), so that inputs longer than the *)
(* glyph count are representable.  f64 values are fixed-point integers     *)
(* with the scale named next to each of them.                              *)
(***************************************************************************)
EXTENDS Integers, Sequences, FiniteSets, TLC

VARIABLES
    state,       \* Arc<AppState> built by main: [start_time]
    now,         \* reading of the monotonic clock (Instant), in ticks
    conn,        \* a client connection: idle, or [stage, op, req] with the request
                 \* in flight, or [stage, op, req, resp] with the response
    peer_state,  \* AppState of a second run of the service
    peer_resp,   \* what the second run answers to the request in `conn`
    health_log   \* uptime_secs of the two most recent health calls, oldest first

vars == <<state, now, conn, peer_state, peer_resp, health_log>>

----------------------------------------------------------------------------
(* Bounds of the model *)

MaxStart == 1      \* latest clock reading at which a run starts
MaxClock == 4      \* the clock stops advancing here
TicksPerSec == 2   \* clock resolution: ticks per second

(* Program constants *)

U8Max == 255
MaxQualityAllowed == 100
OriginalSizeKb == 280
OriginalGlyphCount == 8500
BAD_REQUEST == 400
OK == 200

----------------------------------------------------------------------------
(* Text helpers (std::str) *)

WhiteSpace == {" ", "\t", "\n"}

UpperCase == <<"A","B","C","D","E","F","G","H","I","J","K","L","M",
               "N","O","P","Q","R","S","T","U","V","W","X","Y","Z">>
LowerCase == <<"a","b","c","d","e","f","g","h","i","j","k","l","m",
               "n","o","p","q","r","s","t","u","v","w","x","y","z">>

lower_char(c) ==
    IF \E i \in 1..Len(UpperCase) : UpperCase[i] = c
    THEN LowerCase[CHOOSE i \in 1..Len(UpperCase) : UpperCase[i] = c]
    ELSE c

to_lowercase(s) == [i \in 1..Len(s) |-> lower_char(s[i])]

replace(s, from, to) == [i \in 1..Len(s) |-> IF s[i] = from THEN to ELSE s[i]]

RECURSIVE trim_start(_)
trim_start(s) ==
    IF s = <<>> THEN s
    ELSE IF Head(s) \in WhiteSpace THEN trim_start(Tail(s)) ELSE s

RECURSIVE trim_end(_)
trim_end(s) ==
    IF s = <<>> THEN s
    ELSE IF s[Len(s)] \in WhiteSpace THEN trim_end(SubSeq(s, 1, Len(s) - 1)) ELSE s

trim(s) == trim_end(trim_start(s))

is_empty(s) == Len(s) = 0

contains(s, pat) ==
    \E i \in 1..(Len(s) - Len(pat) + 1) : SubSeq(s, i, i + Len(pat) - 1) = pat

\* Display of a String inside format!: the characters one after the other
RECURSIVE display(_)
display(s) == IF s = <<>> THEN "" ELSE Head(s) \o display(Tail(s))

\* UTF-8 width of a character (str::len counts these, chars() does not)
utf8_len(c) == IF c = "U+3042" THEN 3 ELSE 1

RECURSIVE chars_count(_)
chars_count(runs) ==
    IF runs = <<>> THEN 0 ELSE Head(runs).n + chars_count(Tail(runs))

RECURSIVE bytes_len(_)
bytes_len(runs) ==
    IF runs = <<>> THEN 0
    ELSE Head(runs).n * utf8_len(Head(runs).ch) + bytes_len(Tail(runs))

Max(a, b) == IF a >= b THEN a ELSE b
Min(a, b) == IF a <= b THEN a ELSE b

Err(code, msg) == [status |-> code, error |-> msg]
Ok(body) == [status |-> OK, body |-> body]

----------------------------------------------------------------------------
(* Handlers.  A response is Ok(body) or Err(status, message). *)

\* Instant::elapsed: time since the instant, zero if the clock reads earlier
elapsed(start_time, t) == IF t >= start_time THEN t - start_time ELSE 0

\* Duration::as_secs: whole seconds, the sub-second part dropped
as_secs(d) == d \div TicksPerSec

\* Duration::subsec part, what as_secs drops
subsec(d) == d % TicksPerSec

health_subsec(st, t) ==
    Ok([status |-> "ok",
        uptime_secs |-> subsec(elapsed(st.start_time, t)),
        version |-> "CARGO_PKG_VERSION"])

health(st, t) ==
    Ok([status |-> "ok",
        uptime_secs |-> as_secs(elapsed(st.start_time, t)),
        version |-> "CARGO_PKG_VERSION"])

valid_formats == {"woff2", "woff", "otf", "ttf"}

unsupported_format(format) ==
    "unsupported format '" \o format \o "'; valid: woff2, woff, otf, ttf"

slug(font_name) == display(replace(to_lowercase(font_name), " ", "-"))

\* ratio_base in hundredths
ratio_base_ttf_falls_through(format) ==
    CASE format = "woff2" -> 35
      [] format = "woff" -> 55
      [] format = "otf" -> 90
      [] OTHER -> 80

ratio_base(format) ==
    CASE format = "woff2" -> 35
      [] format = "woff" -> 55
      [] format \in {"otf", "ttf"} -> 90
      [] OTHER -> 80

\* quality_factor in two-hundredths: 0.5 is 100, quality/100 is 2*quality
quality_factor_unhalved(quality) == 100 + (2 * quality)

quality_factor(quality) == 100 + (2 * quality) \div 2

\* sizes of a compress response are in units of 1/20000 KB
\* (hundredths of ratio_base times two-hundredths of quality_factor);
\* ratio is the fraction num/den
compress_body(st, req) ==
    LET original_size_kb == OriginalSizeKb * 100 * 200
        compressed_size_kb ==
            OriginalSizeKb * ratio_base(req.format) * quality_factor(req.quality)
    IN  [font_name |-> req.font_name,
         format |-> req.format,
         quality |-> req.quality,
         original_size_kb |-> original_size_kb,
         compressed_size_kb |-> compressed_size_kb,
         ratio |-> [num |-> original_size_kb, den |-> compressed_size_kb],
         download_url |-> "/cdn/fonts/" \o slug(req.font_name) \o "/"
                          \o slug(req.font_name) \o "." \o req.format]

compress_name_first(st, req) ==
    IF is_empty(trim(req.font_name))
    THEN Err(BAD_REQUEST, "font_name is required")
    ELSE IF req.format \notin valid_formats
    THEN Err(BAD_REQUEST, unsupported_format(req.format))
    ELSE IF req.quality > MaxQualityAllowed
    THEN Err(BAD_REQUEST, "quality must be 0-100")
    ELSE Ok(compress_body(st, req))

compress_stamped(st, req) ==
    IF req.format \notin valid_formats
    THEN Err(BAD_REQUEST, unsupported_format(req.format))
    ELSE IF req.quality > MaxQualityAllowed
    THEN Err(BAD_REQUEST, "quality must be 0-100")
    ELSE IF is_empty(trim(req.font_name))
    THEN Err(BAD_REQUEST, "font_name is required")
    ELSE Ok([compress_body(st, req) EXCEPT
                !.download_url = @ \o "?v=" \o ToString(st.start_time)])

compress(st, req) ==
    IF req.format \notin valid_formats
    THEN Err(BAD_REQUEST, unsupported_format(req.format))
    ELSE IF req.quality > MaxQualityAllowed
    THEN Err(BAD_REQUEST, "quality must be 0-100")
    ELSE IF is_empty(trim(req.font_name))
    THEN Err(BAD_REQUEST, "font_name is required")
    ELSE Ok(compress_body(st, req))

character_count_bytes(characters) == Max(bytes_len(characters), 1)

character_count(characters) == Max(chars_count(characters), 1)

subset_glyph_count_unclamped(count) == count

subset_glyph_count(count) == Min(count, OriginalGlyphCount)

\* sizes of a subset response are in units of 1/(8500 * 100) KB
\* (subset_ratio in 8500ths times format_ratio in hundredths)
subset(st, req) ==
    IF req.format \notin valid_formats
    THEN Err(BAD_REQUEST, unsupported_format(req.format))
    ELSE IF is_empty(trim(req.font_name))
    THEN Err(BAD_REQUEST, "font_name is required")
    ELSE
        LET count == character_count(req.characters)
            glyphs == subset_glyph_count(count)
            format_ratio == IF req.format = "woff2" THEN 35 ELSE 55
        IN  Ok([font_name |-> req.font_name,
                format |-> req.format,
                character_count |-> count,
                original_glyph_count |-> OriginalGlyphCount,
                subset_glyph_count |-> glyphs,
                original_size_kb |-> OriginalSizeKb * OriginalGlyphCount * 100,
                subset_size_kb |-> OriginalSizeKb * glyphs * format_ratio,
                download_url |-> "/cdn/fonts/" \o slug(req.font_name)
                                 \o "/subset." \o req.format])

entry(id, family, variant, formats, size_kb, glyph_count, unicode_ranges, license) ==
    [id |-> id, family |-> family, variant |-> variant, formats |-> formats,
     size_kb |-> size_kb, glyph_count |-> glyph_count,
     unicode_ranges |-> unicode_ranges, license |-> license]

inter_entry ==
    entry("inter", "Inter", "Regular", <<"woff2", "woff", "ttf">>, 94, 3990,
          <<"U+0000-00FF", "U+0100-024F">>, "OFL-1.1")
noto_entry ==
    entry("noto-sans-jp", "Noto Sans JP", "Regular", <<"woff2", "otf">>, 4200, 22080,
          <<"U+0020-007E", "U+3000-9FFF">>, "OFL-1.1")
roboto_entry ==
    entry("roboto", "Roboto", "Bold", <<"woff2", "woff", "ttf">>, 68, 1294,
          <<"U+0000-00FF">>, "Apache-2.0")
fira_entry ==
    entry("fira-code", "Fira Code", "Regular", <<"woff2", "ttf">>, 132, 1617,
          <<"U+0020-007E", "U+FB00-FB06">>, "OFL-1.1")

catalog_sorted_by_id(st) == Ok(<<fira_entry, inter_entry, noto_entry, roboto_entry>>)

catalog(st) == Ok(<<inter_entry, noto_entry, roboto_entry, fira_entry>>)

descriptor(glyph_count, format, size_kb, variable, palettes, features) ==
    [glyph_count |-> glyph_count, format |-> format, size_kb |-> size_kb,
     variable |-> variable, palettes |-> palettes, features |-> features]

noto_descriptor == descriptor(22080, "otf", 4200, FALSE, 0, <<"kern", "liga", "calt">>)
fira_descriptor == descriptor(1617, "ttf", 132, FALSE, 0, <<"kern", "liga", "dlig", "calt">>)
inter_descriptor == descriptor(3990, "otf", 94, TRUE, 0, <<"kern", "ss01", "cv01">>)
default_descriptor == descriptor(1200, "ttf", 80, FALSE, 0, <<"kern">>)

classify_fira_first(font_name) ==
    LET name == to_lowercase(font_name)
    IN  IF contains(name, <<"f","i","r","a">>) THEN fira_descriptor
        ELSE IF contains(name, <<"n","o","t","o">>) THEN noto_descriptor
        ELSE IF contains(name, <<"i","n","t","e","r">>) THEN inter_descriptor
        ELSE default_descriptor

\* the match on the lowercased name: the first arm whose guard holds
classify(font_name) ==
    LET name == to_lowercase(font_name)
    IN  IF contains(name, <<"n","o","t","o">>) THEN noto_descriptor
        ELSE IF contains(name, <<"f","i","r","a">>) THEN fira_descriptor
        ELSE IF contains(name, <<"i","n","t","e","r">>) THEN inter_descriptor
        ELSE default_descriptor

analyze_body(req) ==
    LET d == classify(req.font_name)
    IN  [font_name |-> req.font_name,
         glyph_count |-> d.glyph_count,
         format |-> d.format,
         size_kb |-> d.size_kb,
         unicode_ranges |-> <<"U+0000-00FF", "U+0100-024F">>,
         has_variable_axes |-> d.variable,
         color_palettes |-> d.palettes,
         opentype_features |-> d.features]

analyze_untrimmed(st, req) ==
    IF is_empty(req.font_name)
    THEN Err(BAD_REQUEST, "font_name is required")
    ELSE Ok(analyze_body(req))

analyze(st, req) ==
    IF is_empty(trim(req.font_name))
    THEN Err(BAD_REQUEST, "font_name is required")
    ELSE Ok(analyze_body(req))

----------------------------------------------------------------------------
(* Requests the model sends *)

Blank == <<>>
Spaces == <<" ", "\t", " ">>
OpenSans == <<"O","p","e","n"," ","S","a","n","s">>
NotoSansJP == <<"N","o","t","o"," ","S","a","n","s"," ","J","P">>
NOTOfira == <<"N","O","T","O","-","f","i","r","a">>
InterNoto == <<"i","n","t","e","r"," ","N","o","T","o">>
FiraCode == <<"F","i","r","a","C","o","d","e">>
InterFira == <<"I","N","T","E","R","f","i","r","A">>
Inter == <<" ","I","n","t","e","r">>
UnknownFont == <<"u","n","k","n","o","w","n","-","f","o","n","t">>
NotO == <<"n","o","t"," ","o","-","f","i","r"," ","a">>

FontNames ==
    {Blank, Spaces, OpenSans, NotoSansJP, NOTOfira, InterNoto, FiraCode,
     InterFira, Inter, UnknownFont, NotO}

\* names sent to compress and subset
SampleNames == {Blank, Spaces, OpenSans, NotoSansJP}

Formats == {"woff2", "woff", "otf", "ttf", "ttc", "WOFF2"}

\* quality is a u8
Qualities == 0..U8Max
SampleQualities == {0, 50, MaxQualityAllowed, MaxQualityAllowed + 1, U8Max}

run(ch, n) == [ch |-> ch, n |-> n]

Characters ==
    {<<>>,
     <<run("a", 1)>>,
     <<run("a", 3)>>,
     <<run("a", 1), run("b", 1)>>,
     <<run("a", 1), run("U+3042", 1), run("a", 1)>>,
     <<run("a", OriginalGlyphCount - 1)>>,
     <<run("a", OriginalGlyphCount - 1), run("b", 1)>>,
     <<run("a", OriginalGlyphCount), run("b", 1)>>}

----------------------------------------------------------------------------
(* The service.  A client connection carries one request at a time: the    *)
(* client sends it, the router hands it to the handler of its route, the   *)
(* handler runs to completion (it has no await point) and the client reads *)
(* the response.                                                           *)

Idle == [stage |-> "idle"]

\* main: the start time is read from the clock, then requests are served
Init ==
    /\ now \in 0..MaxStart
    /\ state = [start_time |-> now]
    /\ peer_state \in {[start_time |-> t] : t \in 0..MaxStart}
    /\ conn = Idle
    /\ peer_resp = Idle
    /\ health_log = <<>>

Tick ==
    /\ now < MaxClock
    /\ now' = now + 1
    /\ UNCHANGED <<state, conn, peer_state, peer_resp, health_log>>

\* a request on its way to the handler of its route
Request(op, req) == [stage |-> "request", op |-> op, req |-> req]

GetHealth ==
    /\ conn.stage = "idle"
    /\ conn' = Request("health", <<>>)
    /\ UNCHANGED <<state, now, peer_state, peer_resp, health_log>>

PostCompress ==
    \E font_name \in SampleNames, format \in Formats, quality \in SampleQualities :
        /\ conn.stage = "idle"
        /\ conn' = Request("compress", [font_name |-> font_name,
                                        format |-> format,
                                        quality |-> quality])
        /\ UNCHANGED <<state, now, peer_state, peer_resp, health_log>>

PostSubset ==
    \E font_name \in SampleNames, characters \in Characters, format \in Formats :
        /\ conn.stage = "idle"
        /\ conn' = Request("subset", [font_name |-> font_name,
                                      characters |-> characters,
                                      format |-> format])
        /\ UNCHANGED <<state, now, peer_state, peer_resp, health_log>>

GetCatalog ==
    /\ conn.stage = "idle"
    /\ conn' = Request("catalog", <<>>)
    /\ UNCHANGED <<state, now, peer_state, peer_resp, health_log>>

PostAnalyze ==
    \E font_name \in FontNames :
        /\ conn.stage = "idle"
        /\ conn' = Request("analyze", [font_name |-> font_name])
        /\ UNCHANGED <<state, now, peer_state, peer_resp, health_log>>

Routed(op) == conn.stage = "request" /\ conn.op = op

Respond(resp) ==
    conn' = [stage |-> "response", op |-> conn.op, req |-> conn.req, resp |-> resp]

Health ==
    /\ Routed("health")
    /\ LET resp == health(state, now)
       IN  /\ Respond(resp)
           /\ health_log' = IF Len(health_log) < 2
                            THEN Append(health_log, resp.body.uptime_secs)
                            ELSE <<health_log[2], resp.body.uptime_secs>>
    /\ peer_resp' = health(peer_state, now)
    /\ UNCHANGED <<state, now, peer_state>>

Compress ==
    /\ Routed("compress")
    /\ Respond(compress(state, conn.req))
    /\ peer_resp' = compress(peer_state, conn.req)
    /\ UNCHANGED <<state, now, peer_state, health_log>>

Subset ==
    /\ Routed("subset")
    /\ Respond(subset(state, conn.req))
    /\ peer_resp' = subset(peer_state, conn.req)
    /\ UNCHANGED <<state, now, peer_state, health_log>>

Catalog ==
    /\ Routed("catalog")
    /\ Respond(catalog(state))
    /\ peer_resp' = catalog(peer_state)
    /\ UNCHANGED <<state, now, peer_state, health_log>>

Analyze ==
    /\ Routed("analyze")
    /\ Respond(analyze(state, conn.req))
    /\ peer_resp' = analyze(peer_state, conn.req)
    /\ UNCHANGED <<state, now, peer_state, health_log>>

\* the client has read the response; the service keeps nothing of it
Deliver ==
    /\ conn.stage = "response"
    /\ conn' = Idle
    /\ peer_resp' = Idle
    /\ UNCHANGED <<state, now, peer_state, health_log>>

Next ==
    \/ Tick
    \/ GetHealth
    \/ PostCompress
    \/ PostSubset
    \/ GetCatalog
    \/ PostAnalyze
    \/ Health
    \/ Compress
    \/ Subset
    \/ Catalog
    \/ Analyze
    \/ Deliver

Spec == Init /\ [][Next]_vars

\* the compress endpoint alone, over every quality a u8 holds
CompressNames == {Spaces, OpenSans}

PostCompressAny ==
    \E font_name \in CompressNames, format \in Formats, quality \in Qualities :
        /\ conn.stage = "idle"
        /\ conn' = Request("compress", [font_name |-> font_name,
                                        format |-> format,
                                        quality |-> quality])
        /\ UNCHANGED <<state, now, peer_state, peer_resp, health_log>>

NextCompress ==
    \/ PostCompressAny
    \/ Compress
    \/ Deliver

SpecCompress == Init /\ [][NextCompress]_vars

----------------------------------------------------------------------------
(* Properties *)

Responded(op) == conn.stage = "response" /\ conn.op = op

Rejected(msg) == conn.resp.status = 400 /\ conn.resp.error = msg

\* the name is empty or made of white space only
IsBlank(font_name) ==
    \A i \in 1..Len(font_name) : font_name[i] \in {" ", "\t", "\n"}

ListedFormat(format) ==
    format = "woff2" \/ format = "woff" \/ format = "otf" \/ format = "ttf"

\* the checks that come before the font_name check all pass
EarlierChecksPass ==
    \/ Responded("analyze")
    \/ Responded("subset") /\ ListedFormat(conn.req.format)
    \/ Responded("compress") /\ ListedFormat(conn.req.format) /\ conn.req.quality <= 100

\* C1: compress and subset validate format, then quality (compress only), then
\* font_name, and the first failing check alone decides the 400 message.
C1_ValidationOrder ==
    (Responded("compress") \/ Responded("subset")) =>
        /\ ~ListedFormat(conn.req.format) =>
               Rejected("unsupported format '" \o conn.req.format
                        \o "'; valid: woff2, woff, otf, ttf")
        /\ (Responded("compress") /\ ListedFormat(conn.req.format)
              /\ conn.req.quality > 100) =>
               Rejected("quality must be 0-100")
        /\ (conn.resp.status = 400 /\ conn.resp.error = "font_name is required") =>
               EarlierChecksPass

\* an unlisted format, a quality above 100 and a blank name in one compress request
C1_Witness ==
    /\ Responded("compress")
    /\ conn.req.format = "WOFF2"
    /\ conn.req.quality > 100
    /\ IsBlank(conn.req.font_name)
    /\ conn.resp.status = 400

\* C2 as stated: on compress, subset and analyze every request with a blank
\* font_name is rejected with "font_name is required".
C2_BlankNameAlwaysNamed ==
    ((Responded("compress") \/ Responded("subset") \/ Responded("analyze"))
        /\ IsBlank(conn.req.font_name)) =>
        Rejected("font_name is required")

\* C2 amended: a blank font_name is rejected with "font_name is required" on
\* analyze always, and on compress and subset when the earlier checks pass.
C2_BlankNameRejected ==
    (EarlierChecksPass /\ IsBlank(conn.req.font_name)) =>
        Rejected("font_name is required")

C2_Witness ==
    /\ Responded("subset")
    /\ conn.req.font_name = <<" ", "\t", " ">>
    /\ ListedFormat(conn.req.format)
    /\ Rejected("font_name is required")

Accepted(op) ==
    /\ Responded(op)
    /\ EarlierChecksPass
    /\ ~IsBlank(conn.req.font_name)

\* ratio_base of the four listed formats, in hundredths
ListedRatioBase(format) ==
    IF format = "woff2" THEN 35 ELSE IF format = "woff" THEN 55 ELSE 90

\* C3: an accepted compress request gets original_size_kb = 280 and
\* compressed_size_kb = 280 x ratio_base(format) x (0.5 + quality/200) with
\* ratio_base 0.35, 0.55, 0.90, 0.90, never 0.80 (sizes in 1/20000 KB).
C3_CompressedSize ==
    Accepted("compress") =>
        LET body == conn.resp.body
            rb == ListedRatioBase(conn.req.format)
            q == conn.req.quality
        IN  /\ conn.resp.status = 200
            /\ body.original_size_kb = 280 * 20000
            /\ body.compressed_size_kb = 280 * rb * (100 + q)
            /\ body.compressed_size_kb # 280 * 80 * (100 + q)
            /\ q = 0 => 2 * body.compressed_size_kb = 280 * rb * 200
            /\ q = 100 => body.compressed_size_kb = 280 * rb * 200

C3_Witness ==
    /\ Accepted("compress")
    /\ conn.req.format = "ttf"
    /\ conn.req.quality = 37
    /\ conn.resp.status = 200

\* C4: for an accepted compress request ratio = original/compressed is above 1:
\* 0 < compressed_size_kb < original_size_kb.
C4_RatioAboveOne ==
    Accepted("compress") =>
        LET body == conn.resp.body
        IN  /\ conn.resp.status = 200
            /\ body.compressed_size_kb > 0
            /\ body.compressed_size_kb < body.original_size_kb
            /\ body.ratio.den > 0
            /\ body.ratio.num > body.ratio.den

\* the combination with the largest compressed size
C4_Witness ==
    /\ Accepted("compress")
    /\ conn.req.format = "otf"
    /\ conn.req.quality = 100
    /\ conn.resp.body.ratio.num * 9 = conn.resp.body.ratio.den * 10

DistinctChars(characters) == {characters[i].ch : i \in 1..Len(characters)}

\* the number of characters of the input, repeated ones counted each time
ScalarCount(characters) ==
    LET upto[i \in 0..Len(characters)] ==
            IF i = 0 THEN 0 ELSE upto[i - 1] + characters[i].n
    IN  upto[Len(characters)]

\* C5 as stated: character_count is the number of distinct characters of the
\* input, with a floor of 1.
C5_DistinctCount ==
    Accepted("subset") =>
        conn.resp.body.character_count =
            (IF DistinctChars(conn.req.characters) = {} THEN 1
             ELSE Cardinality(DistinctChars(conn.req.characters)))

\* C5 amended: character_count is the number of Unicode scalar values of the
\* input, each occurrence counted, with a floor of 1.
C5_ScalarCount ==
    Accepted("subset") =>
        /\ conn.resp.status = 200
        /\ conn.resp.body.character_count =
               (IF ScalarCount(conn.req.characters) = 0 THEN 1
                ELSE ScalarCount(conn.req.characters))

\* "a", a three-byte character, "a": three scalar values, two distinct
C5_Witness ==
    /\ Accepted("subset")
    /\ Len(conn.req.characters) = 3
    /\ Cardinality(DistinctChars(conn.req.characters)) = 2
    /\ conn.resp.body.character_count = 3

\* C6: for an accepted subset request subset_glyph_count =
\* min(character_count, 8500), original_glyph_count = 8500, so
\* 1 <= subset_glyph_count <= original_glyph_count; an empty input is accepted
\* with both counts 1, an input longer than 8500 gives subset_glyph_count 8500.
C6_GlyphCount ==
    Accepted("subset") =>
        LET body == conn.resp.body
        IN  /\ conn.resp.status = 200
            /\ body.original_glyph_count = 8500
            /\ body.subset_glyph_count =
                   (IF body.character_count < 8500 THEN body.character_count ELSE 8500)
            /\ 1 <= body.subset_glyph_count
            /\ body.subset_glyph_count <= body.original_glyph_count
            /\ conn.req.characters = <<>> =>
                   body.character_count = 1 /\ body.subset_glyph_count = 1
            /\ ScalarCount(conn.req.characters) > 8500 =>
                   body.subset_glyph_count = 8500

C6_Witness ==
    /\ Accepted("subset")
    /\ ScalarCount(conn.req.characters) = 8501
    /\ conn.resp.body.character_count = 8501
    /\ conn.resp.body.subset_glyph_count = 8500

\* the name holds the word at some position, letter case ignored
HasWord(font_name, word) ==
    \E i \in 0..(Len(font_name) - Len(word)) :
        \A k \in 1..Len(word) : lower_char(font_name[i + k]) = word[k]

\* C7: analyze of a non-blank name picks the descriptor by the first match among
\* "noto", "fira", "inter" (letter case ignored), else the default one.
C7_FirstMatchWins ==
    (Responded("analyze") /\ ~IsBlank(conn.req.font_name)) =>
        LET body == conn.resp.body
            name == conn.req.font_name
            got == <<body.glyph_count, body.format, body.size_kb,
                     body.has_variable_axes, body.color_palettes>>
        IN  /\ conn.resp.status = 200
            /\ HasWord(name, <<"n","o","t","o">>) =>
                   /\ got = <<22080, "otf", 4200, FALSE, 0>>
                   /\ body.opentype_features = <<"kern", "liga", "calt">>
            /\ (HasWord(name, <<"f","i","r","a">>)
                  /\ ~HasWord(name, <<"n","o","t","o">>)) =>
                   /\ got = <<1617, "ttf", 132, FALSE, 0>>
                   /\ body.opentype_features = <<"kern", "liga", "dlig", "calt">>
            /\ (HasWord(name, <<"i","n","t","e","r">>)
                  /\ ~HasWord(name, <<"f","i","r","a">>)
                  /\ ~HasWord(name, <<"n","o","t","o">>)) =>
                   /\ got = <<3990, "otf", 94, TRUE, 0>>
                   /\ body.opentype_features = <<"kern", "ss01", "cv01">>
            /\ (~HasWord(name, <<"i","n","t","e","r">>)
                  /\ ~HasWord(name, <<"f","i","r","a">>)
                  /\ ~HasWord(name, <<"n","o","t","o">>)) =>
                   /\ got = <<1200, "ttf", 80, FALSE, 0>>
                   /\ body.opentype_features = <<"kern">>

\* "NOTO-fira": both words, the noto descriptor
C7_Witness ==
    /\ Responded("analyze")
    /\ HasWord(conn.req.font_name, <<"f","i","r","a">>)
    /\ HasWord(conn.req.font_name, <<"n","o","t","o">>)
    /\ conn.resp.body.glyph_count = 22080

C10_UptimeMonotonic ==
    [][/\ state' = state
       /\ Len(health_log') = 2 => health_log'[2] >= health_log'[1]
       /\ (conn'.stage = "response" /\ conn'.op = "health") =>
              conn'.resp.status = 200 /\ conn'.resp.body.status = "ok"]_vars

\* two health calls, the second one at least a second later
C10_Witness ==
    /\ Responded("health")
    /\ Len(health_log) = 2
    /\ health_log[2] > health_log[1]
    /\ conn.resp.body.uptime_secs = health_log[2]

====
